---- MODULE Spec2Model ----
(***************************************************************************)
(* HDF5DataLayer (src/caffe/layers/hdf5_data_layer.cpp): a data layer that *)
(* reads a manifest of HDF5 files, keeps one file loaded at a time and     *)
(* fills its top blobs with batch_size rows per Forward_cpu call.          *)
(*                                                                         *)
(* Vectors and buffers are functions on 0..n-1, as the code indexes them;  *)
(* a blob shape is a sequence of dimensions (shape(0) is shape[1]).        *)
(*                                                                         *)
(* The build has USE_HDF5 and USE_OPENCV.  Every file a manifest names     *)
(* holds both datasets, what varies is their shapes; opening or closing a  *)
(* file can fail at any load.  A read or write outside a vector or buffer  *)
(* is undefined behaviour: the process either ends there ("crashed") or    *)
(* goes on with Junk in place of what it read.  A failed CHECK or          *)
(* LOG(FATAL) ends the process ("fatal").                                  *)
(***************************************************************************)
EXTENDS Integers, Sequences, FiniteSets, TLC

\* ------------------------------------------------------------------ bounds
\* longest manifest explored
MaxFiles == 2
\* largest batch_size explored
MaxBatch == 2
\* number of Forward_cpu calls explored in one run
MaxCalls == 3

\* ------------------------------------------------------- files on the disk
\* The HDF5 files a manifest line can name.  Each has the two datasets the
\* layer declares as tops: "data" (top 0) and "label" (top 1).
\*   "A": data (1,3,1,2), label (1)   one row
\*   "B": data (2,3,1,2), label (2)   two rows
\*   "Z": data (0,3,1,2), label (0)   no row
\*   "W": data (2,3,1,1), label (2)   rows of 3 elements instead of 6
\*   "M": data (2,3,1,2), label (1)   the datasets disagree on the row count
\*   "N": data (),        label (2)   data has no axis
FileNames == {"A", "B", "Z", "W", "M", "N"}

FileShape(filename, j) ==
    CASE filename = "A" -> IF j = 0 THEN <<1, 3, 1, 2>> ELSE <<1>>
      [] filename = "B" -> IF j = 0 THEN <<2, 3, 1, 2>> ELSE <<2>>
      [] filename = "Z" -> IF j = 0 THEN <<0, 3, 1, 2>> ELSE <<0>>
      [] filename = "W" -> IF j = 0 THEN <<2, 3, 1, 1>> ELSE <<2>>
      [] filename = "M" -> IF j = 0 THEN <<2, 3, 1, 2>> ELSE <<1>>
      [] OTHER          -> IF j = 0 THEN <<>> ELSE <<2>>

FileOrd(filename) ==
    CASE filename = "A" -> 1 [] filename = "B" -> 2 [] filename = "Z" -> 3
      [] filename = "W" -> 4 [] filename = "M" -> 5 [] OTHER -> 6

\* Element e of dataset j of a file: every element of every file is a
\* different 8-bit value, so a copy from the wrong place shows.
FileData(filename, j, e) == FileOrd(filename) * 24 + j * 18 + e + 1

\* What a read outside a buffer yields when the process survives it.
Junk == 0 - 1

\* --------------------------------------------------------------- the state
VARIABLES
    source_open,        \* whether the manifest file can be opened
    manifest,           \* the file names the manifest file lists, in order
    shuffle,            \* hdf5_data_param().shuffle()
    batch_size,         \* hdf5_data_param().batch_size()
    is_image,           \* hdf5_data_param().image()
    has_transform,      \* layer_param_.has_transform_param()
    pc,                 \* "constructed", "idle", "forward", "fatal", "crashed"
    hdf_filenames_,
    num_files_,
    current_file_,
    current_row_,
    file_permutation_,
    data_permutation_,
    hdf_blobs_,         \* per top: the file it was read from and its shape
    top,                \* per top: shape, buffer, offset of the data pointer
    open_files,         \* HDF5 file handles (hid_t) open in the process
    peak_open,          \* history: the most file handles open at one time
    i,                  \* Forward_cpu's loop index
    calls,              \* Forward_cpu calls made so far
    setup_file,         \* history: the file LayerSetUp loaded
    last,               \* history: the latest sample placed into a batch
    rowsSeen,           \* history: rows emitted in the current pass of the file
    filesLoaded,        \* history: manifest indices loaded in the current pass
    filePassLen         \* history: loads made in the latest completed pass

vars == <<source_open, manifest, shuffle, batch_size, is_image, has_transform,
          pc, hdf_filenames_, num_files_, current_file_, current_row_,
          file_permutation_, data_permutation_, hdf_blobs_, top, open_files,
          peak_open, i, calls, setup_file, last, rowsSeen, filesLoaded,
          filePassLen>>

config == <<source_open, manifest, shuffle, batch_size, is_image, has_transform>>

\* ----------------------------------------------------------------- helpers
\* layer_param_.top_size(): the layer declares "data" and "label".
top_size == 2
Tops == 0 .. top_size - 1

RECURSIVE Prod(_)
Prod(s) == IF s = <<>> THEN 1 ELSE Head(s) * Prod(Tail(s))

\* Blob::count(): the number of elements of a blob of that shape.
Count(shape) == Prod(shape)

Vec(n) == 0 .. n - 1
Size(v) == Cardinality(DOMAIN v)

\* The identity permutation the code fills in after resize(n).
Identity(n) == [k \in Vec(n) |-> k]

\* std::random_shuffle(v.begin(), v.end()): every reordering can result.
Bijections(n) == {p \in [Vec(n) -> Vec(n)] : \A a, b \in Vec(n) : p[a] = p[b] => a = b}
\* Mutant: a shuffle that draws every position independently.
random_shuffle_with_repeats(v) ==
    {[k \in DOMAIN v |-> v[p[k]]] : p \in [DOMAIN v -> DOMAIN v]}

random_shuffle(v) == {[k \in DOMAIN v |-> v[p[k]]] : p \in Bijections(Size(v))}

MaybeShuffle(v) == IF shuffle THEN random_shuffle(v) ELSE {v}

\* ------------------------------------------------------ LoadHDF5FileData
\* hdf_blobs_[0]->shape(0): the row count of the loaded file.
Rows(blobs) == blobs[0].shape[1]

\* The blobs hdf5_load_nd_dataset fills from the file, one per top; a blob
\* keeps its shape and its element count.
ReadBlobs(filename) ==
    [j \in Tops |-> [file |-> filename, shape |-> FileShape(filename, j),
                     count |-> Count(FileShape(filename, j))]]

\* Mutant: the row counts of the other datasets are not compared.
ValidBlobsFirstOnly(blobs) == Len(blobs[0].shape) >= 1

\* The two CHECKs after the file is closed.
ValidBlobs(blobs) ==
    /\ Len(blobs[0].shape) >= 1
    /\ \A j \in 1 .. top_size - 1 : blobs[j].shape[1] = blobs[0].shape[1]

\* Mutant: the file is left open.
H5FcloseLeak(handles) == handles

\* hid_t file_id = H5Fopen(...), when it succeeds: one more handle is open.
H5Fopen(handles) == handles + 1

\* H5Fclose(file_id), when it succeeds: the handle is gone.
H5Fclose(handles) == handles - 1

Max(a, b) == IF a >= b THEN a ELSE b

\* The outcomes of LoadHDF5FileData(filename).  H5Fopen can fail, which is
\* fatal before anything is read; H5Fclose can fail, which is fatal with the
\* blobs read and the handle still there; a failed CHECK on the blobs is
\* fatal after the file was closed.  A fatal outcome leaves
\* data_permutation_ as it was; otherwise data_permutation_ is the identity
\* over the file's rows, shuffled if shuffle is set.
LoadHDF5FileData(filename) ==
    LET opened == H5Fopen(open_files)
        peak   == Max(peak_open, opened)
        blobs  == ReadBlobs(filename)
        closed == H5Fclose(opened)
    IN  {[fatal |-> TRUE, blobs |-> hdf_blobs_, dp |-> data_permutation_,
          handles |-> open_files, peak |-> peak_open]}
        \cup
        {[fatal |-> TRUE, blobs |-> blobs, dp |-> data_permutation_,
          handles |-> opened, peak |-> peak]}
        \cup
        (IF ~ValidBlobs(blobs)
         THEN {[fatal |-> TRUE, blobs |-> blobs, dp |-> data_permutation_,
                handles |-> closed, peak |-> peak]}
         ELSE {[fatal |-> FALSE, blobs |-> blobs, dp |-> d,
                handles |-> closed, peak |-> peak] :
                  d \in MaybeShuffle(Identity(Rows(blobs)))})

\* ------------------------------------------------------------- LayerSetUp
\* Mutant: the top takes the loaded blob's row count too.
TopShapeWhole(blob) == blob.shape

\* top[i]->Reshape(top_shape): batch_size rows of the loaded blob's row shape.
TopShape(blob) == <<batch_size>> \o Tail(blob.shape)

ReshapedTop(blob) ==
    [shape |-> TopShape(blob),
     count |-> Count(TopShape(blob)),
     data  |-> [e \in Vec(Count(TopShape(blob))) |-> 0],
     ptr   |-> 0]

NoLast == [slot |-> 0 - 1, file |-> 0 - 1, cf |-> 0 - 1, row |-> Junk,
           ub |-> FALSE, wrapped |-> FALSE, loaded |-> FALSE, woff |-> 0 - 1,
           img |-> <<>>]

\* Mutant: an empty manifest passes the check.
ManifestTooShortNever(n) == n < 0

\* CHECK_GE(num_files_, 1) fails.
ManifestTooShort(n) == n < 1

Fatal ==
    /\ pc' = "fatal"
    /\ UNCHANGED <<top, i, calls, setup_file, last, rowsSeen>>

LayerSetUp ==
    /\ pc = "constructed"
    /\ UNCHANGED config
    /\ IF ~source_open
       THEN /\ Fatal
            /\ UNCHANGED <<hdf_filenames_, num_files_, current_file_,
                           current_row_, file_permutation_, data_permutation_,
                           hdf_blobs_, open_files, peak_open, filesLoaded,
                           filePassLen>>
       ELSE
         /\ hdf_filenames_' = manifest
         /\ num_files_' = Size(manifest)
         /\ current_file_' = 0
         /\ IF ManifestTooShort(Size(manifest))
            THEN /\ Fatal
                 /\ UNCHANGED <<current_row_, file_permutation_,
                                data_permutation_, hdf_blobs_, open_files,
                                peak_open, filesLoaded, filePassLen>>
            ELSE
              \E fp \in MaybeShuffle(Identity(Size(manifest))) :
                /\ file_permutation_' = fp
                /\ UNCHANGED filePassLen
                /\ IF 0 \notin DOMAIN fp
                   THEN \* file_permutation_[0] of an empty vector
                     /\ pc' = "crashed"
                     /\ UNCHANGED <<current_row_, data_permutation_,
                                    hdf_blobs_, open_files, peak_open,
                                    filesLoaded, top, i, calls, setup_file,
                                    last, rowsSeen>>
                   ELSE
                     \E ld \in LoadHDF5FileData(manifest[fp[0]]) :
                       /\ hdf_blobs_' = ld.blobs
                       /\ data_permutation_' = ld.dp
                       /\ open_files' = ld.handles
                       /\ peak_open' = ld.peak
                       /\ filesLoaded' = <<fp[0]>>
                       /\ IF ld.fatal
                          THEN Fatal /\ UNCHANGED current_row_
                          ELSE /\ current_row_' = 0
                               /\ top' = [j \in Tops |->
                                             ReshapedTop(ld.blobs[j])]
                               /\ pc' = "idle"
                               /\ setup_file' = manifest[fp[0]]
                               /\ UNCHANGED <<i, calls, last, rowsSeen>>

\* ------------------------------------------------------------ Forward_cpu
\* Mutant: the wrap test lets the cursor go one row past the end.
NeedWrapLate(row, blobs) == row > Rows(blobs)

\* if (current_row_ == hdf_blobs_[0]->shape(0))
NeedWrap(row, blobs) == row = Rows(blobs)

\* Mutant: the file cursor loops around one file early.
NextFileEarly(cf, n) == IF cf + 1 >= n - 1 THEN 0 ELSE cf + 1

\* Mutant: a single file is reloaded too.
MultiFileAlways(n) == n >= 1

\* if (num_files_ > 1)
MultiFile(n) == n > 1

\* ++current_file_; if (current_file_ == num_files_) current_file_ = 0;
NextFile(cf, n) == IF cf + 1 = n THEN 0 ELSE cf + 1

\* Mutant: the file permutation is reshuffled at every file advance.
FilePermAlways(cf, fp) == MaybeShuffle(fp)

\* The file permutation in force after the file cursor moved to cf: it is
\* reshuffled only when the cursor looped around to the first file.
FilePermAfter(cf, fp) == IF cf = 0 THEN MaybeShuffle(fp) ELSE {fp}

\* Mutant: the row permutation is reshuffled at every sample.
RowPermAlways(wrapped, dp) == MaybeShuffle(dp)

\* The row permutation in force after the wrap test: it is reshuffled only
\* when the row cursor wrapped.
RowPermAfter(wrapped, dp) == IF wrapped THEN MaybeShuffle(dp) ELSE {dp}

\* The head of the loop body: the outcomes of the wrap test and of what it
\* triggers, before the row is copied.
Advance ==
    IF ~NeedWrap(current_row_, hdf_blobs_)
    THEN {[fatal |-> FALSE, wrapped |-> FALSE, loaded |-> FALSE,
           cf |-> current_file_, fp |-> file_permutation_,
           blobs |-> hdf_blobs_, dp |-> d, row |-> current_row_,
           handles |-> open_files, peak |-> peak_open] :
             d \in RowPermAfter(FALSE, data_permutation_)}
    ELSE IF MultiFile(num_files_)
    THEN LET cf == NextFile(current_file_, num_files_) IN
         UNION {UNION {
           IF ld.fatal
           THEN {[fatal |-> TRUE, wrapped |-> TRUE, loaded |-> TRUE,
                  cf |-> cf, fp |-> fp, blobs |-> ld.blobs, dp |-> ld.dp,
                  row |-> current_row_, handles |-> ld.handles,
                  peak |-> ld.peak]}
           ELSE {[fatal |-> FALSE, wrapped |-> TRUE, loaded |-> TRUE,
                  cf |-> cf, fp |-> fp, blobs |-> ld.blobs, dp |-> d,
                  row |-> 0, handles |-> ld.handles, peak |-> ld.peak] :
                    d \in RowPermAfter(TRUE, ld.dp)}
           : ld \in LoadHDF5FileData(hdf_filenames_[fp[cf]])}
           : fp \in FilePermAfter(cf, file_permutation_)}
    ELSE {[fatal |-> FALSE, wrapped |-> TRUE, loaded |-> FALSE,
           cf |-> current_file_, fp |-> file_permutation_,
           blobs |-> hdf_blobs_, dp |-> d, row |-> 0,
           handles |-> open_files, peak |-> peak_open] :
             d \in RowPermAfter(TRUE, data_permutation_)}

\* data_permutation_[current_row_]; outside the vector the read is undefined.
SourceRow(dp, row) == IF row \in DOMAIN dp THEN dp[row] ELSE Junk

\* int data_dim = top[j]->count() / top[j]->shape(0);
data_dim(t) == t.count \div t.shape[1]

\* hdf_blobs_[j]->cpu_data()[e]; outside the buffer the read is undefined.
InBlob(blobs, j, e) == e \in Vec(blobs[j].count)
BlobData(blobs, j, e) ==
    IF InBlob(blobs, j, e) THEN FileData(blobs[j].file, j, e) ELSE Junk

\* caffe_copy(data_dim, &hdf_blobs_[j]->cpu_data()[r * data_dim],
\*            &top[j]->mutable_cpu_data()[slot * data_dim])
CopyRow(t, blobs, j, r, slot) ==
    LET n   == data_dim(t)
        src == r * n
        dst == slot * n
    IN  [t EXCEPT !.data =
            [e \in DOMAIN t.data |->
                IF e >= dst /\ e < dst + n
                THEN BlobData(blobs, j, src + (e - dst))
                ELSE t.data[e]]]

\* Whether copying row r for top j reads outside the loaded blob.
CopyReadsOutside(t, blobs, j, r) ==
    LET n == data_dim(t) IN
    n > 0 /\ (r * n < 0 \/ r * n + n > blobs[j].count)

\* The plain path: every top gets the row by caffe_copy.
PlainCopy(adv, slot) ==
    LET r == SourceRow(adv.dp, adv.row) IN
    [top |-> [j \in Tops |-> CopyRow(top[j], adv.blobs, j, r, slot)],
     ub  |-> \/ adv.row \notin DOMAIN adv.dp
             \/ \E j \in Tops : CopyReadsOutside(top[j], adv.blobs, j, r),
     throws |-> FALSE,
     woff |-> slot * data_dim(top[0]),
     img |-> <<>>]

\* bshape[k]; outside the shape vector the read is undefined.
HasAxis(shape, k) == k + 1 <= Len(shape)
ShapeAt(shape, k) == IF HasAxis(shape, k) THEN shape[k + 1] ELSE 1

\* static_cast<uint8_t>(v)
UInt8(v) == v % 256

\* The cv::Mat built from row r of blob 0: pixel (h, w), channel c, stored
\* interleaved at (h * width + w) * 3 + c, is read from element
\* c * width * height + h * width + w of the row.
CvImg(blobs, r, dim, height, width) ==
    [q \in Vec(height * width * 3) |->
        LET c == q % 3
            w == (q \div 3) % width
            h == (q \div 3) \div width
        IN  UInt8(BlobData(blobs, 0, r * dim + c * width * height + h * width + w))]

\* img_data.at(idx) throws when idx is outside the data_dim elements copied.
ImgAtThrows(dim, height, width) == 3 * height * width > dim

\* DataTransformer::Transform(cv_img, blob): the transformed image, channel
\* by channel, written from the start of the blob's data.
Transformed(v) == v + 256
Transform(img, height, width) ==
    [e \in Vec(3 * height * width) |->
        LET c == e \div (height * width)
            h == (e % (height * width)) \div width
            w == e % width
        IN  Transformed(img[(h * width + w) * 3 + c])]

\* top[0]->set_cpu_data(top[0]->mutable_cpu_data() + slot * data_dim): the
\* data pointer moves on from where it points now.
set_cpu_data(t, slot) == [t EXCEPT !.ptr = t.ptr + slot * data_dim(t)]

\* The blob after Transform wrote `out` at its data pointer; elements that
\* fall outside the allocated buffer are not part of it.
WriteAtPtr(t, out) ==
    [t EXCEPT !.data =
        [e \in DOMAIN t.data |->
            IF e - t.ptr \in DOMAIN out THEN out[e - t.ptr] ELSE t.data[e]]]

\* The image path: top 0 through the transformer, the other tops by caffe_copy.
ImageCopy(adv, slot) ==
    LET r      == SourceRow(adv.dp, adv.row)
        bshape == adv.blobs[0].shape
        height == ShapeAt(bshape, 2)
        width  == ShapeAt(bshape, 3)
        dim    == data_dim(top[0])
        img    == CvImg(adv.blobs, r, dim, height, width)
        t0     == set_cpu_data(top[0], slot)
        out    == Transform(img, height, width)
    IN  [top |-> [j \in Tops |->
                    IF j = 0 THEN WriteAtPtr(t0, out)
                    ELSE CopyRow(top[j], adv.blobs, j, r, slot)],
         ub  |-> \/ adv.row \notin DOMAIN adv.dp
                 \/ ~HasAxis(bshape, 2) \/ ~HasAxis(bshape, 3)
                 \/ \E j \in Tops : CopyReadsOutside(top[j], adv.blobs, j, r)
                 \/ \E e \in DOMAIN out : t0.ptr + e \notin DOMAIN t0.data,
         throws |-> ImgAtThrows(dim, height, width),
         woff |-> t0.ptr,
         img |-> img]

UseImagePath == is_image /\ has_transform

Copy(adv, slot) ==
    IF UseImagePath
    THEN ImageCopy(adv, slot)
    ELSE PlainCopy(adv, slot)

ForwardCall ==
    /\ pc = "idle"
    /\ calls < MaxCalls
    /\ pc' = "forward"
    /\ i' = 0
    /\ calls' = calls + 1
    /\ UNCHANGED <<config, hdf_filenames_, num_files_, current_file_,
                   current_row_, file_permutation_, data_permutation_,
                   hdf_blobs_, top, open_files, peak_open, setup_file, last,
                   rowsSeen, filesLoaded, filePassLen>>

\* One iteration of the loop over the batch: the wrap test, the copy, and
\* ++i, ++current_row_.  Undefined behaviour either ends the process or lets
\* it go on with whatever was read.
Iterate ==
    /\ pc = "forward"
    /\ i < batch_size
    /\ UNCHANGED <<config, hdf_filenames_, num_files_, calls, setup_file>>
    /\ \E adv \in Advance :
         /\ current_file_' = adv.cf
         /\ file_permutation_' = adv.fp
         /\ hdf_blobs_' = adv.blobs
         /\ data_permutation_' = adv.dp
         /\ open_files' = adv.handles
         /\ peak_open' = adv.peak
         /\ filesLoaded' = IF ~adv.loaded THEN filesLoaded
                           ELSE IF adv.cf = 0 THEN <<adv.fp[adv.cf]>>
                           ELSE Append(filesLoaded, adv.fp[adv.cf])
         /\ filePassLen' = IF adv.loaded /\ adv.cf = 0
                           THEN Len(filesLoaded) ELSE filePassLen
         /\ IF adv.fatal
            THEN Fatal /\ UNCHANGED current_row_
            ELSE
              LET cp == Copy(adv, i)
                  r  == SourceRow(adv.dp, adv.row)
                  it == [slot |-> i, file |-> adv.fp[adv.cf], cf |-> adv.cf,
                         row |-> r, ub |-> cp.ub \/ cp.throws,
                         wrapped |-> adv.wrapped, loaded |-> adv.loaded,
                         woff |-> cp.woff, img |-> cp.img]
              IN
              /\ \E survives \in (IF cp.throws THEN {FALSE}
                                  ELSE IF cp.ub THEN BOOLEAN ELSE {TRUE}) :
                   IF survives
                   THEN /\ top' = cp.top
                        /\ last' = it
                        /\ rowsSeen' = IF adv.wrapped THEN <<r>>
                                       ELSE Append(rowsSeen, r)
                        /\ current_row_' = adv.row + 1
                        /\ i' = i + 1
                        /\ pc' = "forward"
                   ELSE /\ pc' = "crashed"
                        /\ current_row_' = adv.row
                        /\ rowsSeen' = IF adv.wrapped THEN <<>> ELSE rowsSeen
                        /\ UNCHANGED <<top, last, i>>

ForwardReturn ==
    /\ pc = "forward"
    /\ i = batch_size
    /\ pc' = "idle"
    /\ UNCHANGED <<config, hdf_filenames_, num_files_, current_file_,
                   current_row_, file_permutation_, data_permutation_,
                   hdf_blobs_, top, open_files, peak_open, i, calls,
                   setup_file, last, rowsSeen, filesLoaded, filePassLen>>

\* ------------------------------------------------------- the specification
Manifests == UNION {[Vec(n) -> FileNames] : n \in 0 .. MaxFiles}

Init ==
    /\ source_open \in BOOLEAN
    /\ manifest \in (IF source_open THEN Manifests ELSE {<<>>})
    /\ shuffle \in BOOLEAN
    /\ batch_size \in 1 .. MaxBatch
    /\ is_image \in BOOLEAN
    /\ has_transform \in BOOLEAN
    /\ pc = "constructed"
    /\ hdf_filenames_ = <<>>
    /\ num_files_ = 0
    /\ current_file_ = 0
    /\ current_row_ = 0
    /\ file_permutation_ = <<>>
    /\ data_permutation_ = <<>>
    /\ hdf_blobs_ = <<>>
    /\ top = [j \in Tops |-> [shape |-> <<>>, count |-> 0, data |-> <<>>,
                              ptr |-> 0]]
    /\ open_files = 0
    /\ peak_open = 0
    /\ i = 0
    /\ calls = 0
    /\ setup_file = ""
    /\ last = NoLast
    /\ rowsSeen = <<>>
    /\ filesLoaded = <<>>
    /\ filePassLen = 0

Next ==
    \/ LayerSetUp
    \/ ForwardCall
    \/ Iterate
    \/ ForwardReturn

Spec == Init /\ [][Next]_vars

\* ------------------------------------------------- vocabulary of the claims
\* The process is alive and set up.
Live == pc \in {"idle", "forward"}

\* Samples placed into batches so far.
NumEmitted == IF calls = 0 THEN 0 ELSE (calls - 1) * batch_size + i

\* A sample has been placed into a batch.
Emitted == last.slot >= 0

Range(f) == {f[x] : x \in DOMAIN f}

\* Row count of the k-th manifest file, as stored in the file.
FileRows(k) == FileShape(hdf_filenames_[k], 0)[1]

\* A file whose first dataset has no axis, or whose datasets disagree on d0.
Malformed(filename) ==
    \/ Len(FileShape(filename, 0)) = 0
    \/ \E j \in Tops : FileShape(filename, j)[1] # FileShape(filename, 0)[1]

NoMalformedFile == \A k \in DOMAIN hdf_filenames_ : ~Malformed(hdf_filenames_[k])

\* Every well-formed file of the manifest has at least one row.
NoEmptyFile ==
    \A k \in DOMAIN hdf_filenames_ :
        Malformed(hdf_filenames_[k]) \/ FileRows(k) >= 1

\* One pass over the manifest in order: <<file, row>> for every row of file
\* 0, then of file 1, ...
RECURSIVE PassFrom(_)
PassFrom(k) ==
    IF k >= num_files_ THEN <<>>
    ELSE [r \in 1 .. FileRows(k) |-> <<k, r - 1>>] \o PassFrom(k + 1)

\* ---------------------------------------------------------------------- C1
\* C1: without shuffle and with more than one file, the n-th sample emitted
\* is the n-th element of the stream "all rows of file 0 in order, then all
\* rows of file 1, ..., then of the last file", repeated.
C1_SequentialStream ==
    (~shuffle /\ num_files_ > 1 /\ Live /\ NoMalformedFile /\ Emitted) =>
        LET pass == PassFrom(0) IN
        /\ Len(pass) > 0
        /\ <<last.file, last.row>> = pass[((NumEmitted - 1) % Len(pass)) + 1]

\* ---------------------------------------------------------------------- C2
\* C2: without shuffle and with one file of R >= 1 rows, the n-th sample
\* emitted (n = 0, 1, ...) is row n mod R of that file, for every batch_size.
C2_SingleFilePeriodic ==
    (~shuffle /\ num_files_ = 1 /\ Live /\ Emitted /\ FileRows(0) >= 1) =>
        /\ last.file = 0
        /\ last.row = (NumEmitted - 1) % FileRows(0)

\* A batch larger than the file, wrapping in the middle of a later batch.
C2_Witness ==
    /\ ~shuffle /\ num_files_ = 1 /\ pc = "forward"
    /\ batch_size > FileRows(0) /\ FileRows(0) >= 1
    /\ calls >= 2 /\ last.slot = 1 /\ last.wrapped

\* ---------------------------------------------------------------------- C3
\* C3: with shuffle, within one pass over the loaded file no row of the file
\* is emitted twice, and when the row cursor reaches the end of the file
\* every row of the file has been emitted exactly once.
C3_PassVisitsEachRowOnce ==
    (shuffle /\ Live) =>
        /\ \A a, b \in 1 .. Len(rowsSeen) :
              (a # b /\ rowsSeen[a] \in Vec(Rows(hdf_blobs_)))
                  => rowsSeen[a] # rowsSeen[b]
        /\ current_row_ = Rows(hdf_blobs_) =>
              /\ Len(rowsSeen) = Rows(hdf_blobs_)
              /\ Range(rowsSeen) = Vec(Rows(hdf_blobs_))

\* A later pass over a two-row file completes, in the order 1, 0.
C3_Witness ==
    /\ shuffle /\ pc = "forward" /\ Rows(hdf_blobs_) = 2
    /\ current_row_ = 2 /\ NumEmitted >= 4 /\ rowsSeen = <<1, 0>>

\* ---------------------------------------------------------------------- C4
\* C4: with shuffle and more than one file, no manifest file is loaded twice
\* within a pass over the files, and every pass that completed made exactly
\* num_files loads; so it loaded every manifest file exactly once.
C4_PassLoadsEachFileOnce ==
    (shuffle /\ num_files_ > 1 /\ pc # "constructed") =>
        /\ \A a, b \in 1 .. Len(filesLoaded) :
              a # b => filesLoaded[a] # filesLoaded[b]
        /\ Range(filesLoaded) \subseteq Vec(num_files_)
        /\ filePassLen \in {0, num_files_}

\* A second pass has loaded both files, in another order than the manifest's.
C4_Witness ==
    /\ shuffle /\ num_files_ = 2 /\ Live
    /\ filePassLen = 2 /\ filesLoaded = <<1, 0>>

C6_SlotIsRowCopy ==
    (~UseImagePath /\ Live /\ Emitted /\ NoEmptyFile) =>
        \E r \in Vec(Rows(hdf_blobs_)) : \A j \in Tops :
            LET n == top[j].count \div batch_size IN
            \A k \in Vec(n) :
                /\ r * n + k < hdf_blobs_[j].count
                /\ top[j].data[last.slot * n + k]
                       = FileData(hdf_blobs_[j].file, j, r * n + k)

\* ---------------------------------------------------------------------- C7
\* C7: on the image+transform path, the transformer's output for the sample
\* of slot i is written at element offset i * row_stride of top 0's buffer.
C7_TransformWritesSlot ==
    (UseImagePath /\ Live /\ Emitted) =>
        last.woff = last.slot * (top[0].count \div batch_size)

\* ---------------------------------------------------------------------- C8
\* C8, for manifests without an empty file: after setup, for every top j the
\* per-row element count of the loaded blob j equals count(top j) / batch_size.
C8_RowStrideMatches ==
    (Live /\ NoEmptyFile) => \A j \in Tops :
        Prod(Tail(hdf_blobs_[j].shape)) = top[j].count \div batch_size

\* ---------------------------------------------------------------------- C9
\* C9: after setup, file_permutation_ is a bijection on [0, num_files) and
\* data_permutation_ a bijection on [0, rows of the loaded file).
IsBijectionOn(v, n) == DOMAIN v = Vec(n) /\ Range(v) = Vec(n)

C9_PermutationsAreBijections ==
    Live => /\ IsBijectionOn(file_permutation_, num_files_)
            /\ IsBijectionOn(data_permutation_, Rows(hdf_blobs_))

\* Both permutations are out of order after a wrap-time reshuffle.
C9_Witness ==
    /\ shuffle /\ Live /\ last.wrapped /\ last.loaded /\ filePassLen = 2
    /\ file_permutation_ = [k \in Vec(2) |-> 1 - k]
    /\ data_permutation_ = [k \in Vec(2) |-> 1 - k]

\* --------------------------------------------------------------------- C10
\* C10: a loaded file that is malformed (no axis in the first dataset, or a
\* dataset with another row count) leaves the process in the fatal state, no
\* sample ever comes from such a file, and when setup did not complete no
\* forward call was made.
C10_MalformedFileIsFatal ==
    /\ (hdf_blobs_ # <<>> /\ Malformed(hdf_blobs_[0].file)) => pc = "fatal"
    /\ Emitted => ~Malformed(hdf_filenames_[last.file])
    /\ (pc = "fatal" /\ top[0].shape = <<>>) => calls = 0

\* A malformed file met in the middle of a forward call, after samples of
\* another file were emitted.
C10_Witness ==
    /\ pc = "fatal" /\ Emitted /\ Malformed(hdf_blobs_[0].file)
    /\ hdf_blobs_[0].file = "M"

\* --------------------------------------------------------------------- C11
\* C11: when the manifest cannot be opened or lists no file, setup ends in
\* the fatal state, no data file was ever opened or loaded, no file
\* permutation was built (so its position 0 was never read) and no forward
\* call was made; and a file is loaded only when num_files_ >= 1.
C11_SetupFailsBeforeAnyFile ==
    /\ (pc # "constructed" /\ (~source_open \/ Size(manifest) = 0)) =>
          /\ pc = "fatal"
          /\ peak_open = 0 /\ filesLoaded = <<>> /\ hdf_blobs_ = <<>>
          /\ file_permutation_ = <<>>
          /\ calls = 0
    /\ (filesLoaded # <<>> \/ peak_open > 0) => num_files_ >= 1

\* Setup failed on a manifest that opened and lists nothing.
C11_Witness ==
    /\ pc = "fatal" /\ source_open /\ Size(manifest) = 0
    /\ num_files_ = 0 /\ peak_open = 0

\* --------------------------------------------------------------------- C12
\* C12: after a successful setup, the shape of every top j is batch_size
\* followed by the dimensions after the first of dataset j in the file setup
\* loaded, whatever was loaded or emitted since.
C12_TopShapeFromSetupFile ==
    setup_file # "" => \A j \in Tops :
        top[j].shape = <<batch_size>> \o Tail(FileShape(setup_file, j))

\* Another file, with rows of another shape, is loaded than at setup.
C12_Witness ==
    /\ Live /\ Emitted /\ last.loaded
    /\ hdf_blobs_[0].file # setup_file
    /\ Tail(hdf_blobs_[0].shape) # Tail(FileShape(setup_file, 0))
    /\ top[0].shape = <<batch_size, 3, 1, 2>>

\* --------------------------------------------------------------------- C13
\* C13: at most one data file is ever open at a time, and whenever the
\* process is between two steps of its work without having ended fatally
\* (before setup, between setup and a forward call, between forward calls,
\* between two samples) no data file is open.
C13_FileOpenOnlyInsideLoad ==
    /\ peak_open <= 1
    /\ open_files \in {0, 1}
    /\ pc \in {"constructed", "idle", "forward", "crashed"} => open_files = 0

\* A forward call returned after a load it made itself.
C13_Witness ==
    /\ pc = "idle" /\ calls >= 1 /\ Len(filesLoaded) = 2
    /\ peak_open = 1 /\ open_files = 0

\* --------------------------------------------------------------------- C15
\* The latest sample emitted was the last row of a pass over its file.
LastRowEmitted == Emitted /\ FileRows(last.file) >= 1
                          /\ Len(rowsSeen) = FileRows(last.file)

C16_FilePermChangesOnlyAtFullWrap ==
    [][pc # "constructed" =>
        /\ file_permutation_' # file_permutation_ =>
              /\ shuffle /\ num_files_ > 1
              /\ current_file_ = num_files_ - 1 /\ current_file_' = 0
        /\ (num_files_ > 1 /\ current_file_ = num_files_ - 1
                            /\ current_file_' = 0) =>
              /\ filesLoaded' = <<file_permutation_'[0]>>
              /\ pc' # "fatal" =>
                    hdf_blobs_'[0].file
                        = hdf_filenames_[file_permutation_'[0]]]_vars

\* The file cursor looped around with shuffle set, and the file loaded is
\* the one the reshuffled permutation has at position 0.
C16_Witness ==
    /\ shuffle /\ Live /\ num_files_ = 2 /\ last.loaded /\ current_file_ = 0
    /\ filePassLen = 2 /\ filesLoaded = <<1>>
    /\ file_permutation_ = [k \in Vec(2) |-> 1 - k]
    /\ hdf_filenames_[0] # hdf_filenames_[1]
    /\ hdf_blobs_[0].file = hdf_filenames_[1]

\* --------------------------------------------------------------------- C17
\* C17: with a single file, no step after setup opens or loads a file or
\* changes the loaded blobs, the file cursor (which stays 0) or the file
\* permutation; the row permutation changes only on a row wrap with shuffle
\* set, and a row wrap puts the row cursor back to the first row.
C17_SingleFileNeverReloads ==
    /\ []((num_files_ = 1 /\ pc # "constructed") =>
             /\ current_file_ = 0
             /\ Emitted => ~last.loaded)
    /\ [][(num_files_ = 1 /\ pc \in {"idle", "forward"}) =>
             /\ hdf_blobs_' = hdf_blobs_
             /\ current_file_' = current_file_
             /\ file_permutation_' = file_permutation_
             /\ filesLoaded' = filesLoaded
             /\ open_files' = open_files /\ peak_open' = peak_open
             /\ pc' # "fatal"
             /\ data_permutation_' # data_permutation_ =>
                   shuffle /\ current_row_ = Rows(hdf_blobs_)
             /\ (current_row_ = Rows(hdf_blobs_) /\ i' = i + 1) =>
                   current_row_' = 1 /\ last'.wrapped]_vars

\* A single two-row file wrapped in a later call and its rows were put in
\* another order.
C17_Witness ==
    /\ num_files_ = 1 /\ shuffle /\ Live /\ calls >= 2 /\ last.wrapped
    /\ Rows(hdf_blobs_) = 2
    /\ data_permutation_ = [k \in Vec(2) |-> 1 - k]

\* --------------------------------------------------------------------- C18
\* C18, for manifests without an empty file: on the image+transform path
\* the image built for the latest sample, row r of a file whose rows have
\* the shape (3, H, W), has H * W pixels of 3 channels, and channel c of
\* pixel (h, w) is element c * H * W + h * W + w of row r of the file.
C18_ImageIsTransposedRow ==
    (UseImagePath /\ Live /\ Emitted /\ NoEmptyFile) =>
        LET f     == hdf_filenames_[last.file]
            shape == FileShape(f, 0)
            H     == shape[3]
            W     == shape[4]
        IN  /\ last.row \in Vec(shape[1])
            /\ DOMAIN last.img = Vec(H * W * 3)
            /\ \A h \in Vec(H), w \in Vec(W), c \in Vec(3) :
                  last.img[(h * W + w) * 3 + c]
                      = FileData(f, 0, last.row * (3 * H * W)
                                          + c * H * W + h * W + w)

\* --------------------------------------------------------------------- C19
\* C19: whenever a sample has been read, the position read in
\* data_permutation_ was inside the vector and the row it gave is a row of
\* the loaded file.
C19_RowIndexInBounds ==
    (Live /\ Emitted) =>
        /\ current_row_ - 1 \in DOMAIN data_permutation_
        /\ last.row \in Vec(Rows(hdf_blobs_))

====
